---- MODULE Spec2Model ----
(***************************************************************************)
(* Thread generation (threadGeneration.ts), the publish engine             *)
(* (TwitterAutomation: initialize, postTweet, withRetry, postThread,       *)
(* close) and the API route that calls them (route.ts).                    *)
(*                                                                         *)
(* The publish engine and the generator share no state; each has its own   *)
(* specification (PublishSpec, GenerateSpec) over the same variables.      *)
(***************************************************************************)
EXTENDS Integers, Sequences, FiniteSets, TLC

\* ----------------------------------------------------------------- bounds
\* Longest list of tweets handed to postThread.
MaxTweets == 3
\* Most consecutive failures the publish action of one post can show.
MaxFails == 4

\* Largest followUpCount a caller asks for.
MaxFollowUps == 2
\* Most direct calls of initialize() and close() between two postThread calls.
MaxSessionOps == 3
\* Longest thread of two invocations that run at once.
MaxConcTweets == 2

\* ------------------------------------------------------ program constants
\* private retryCount: number = 3
RetryCount == 3
\* private retryDelay: number = 2000 (ms)
RetryDelay == 2000
\* simulateDelay(1000) between two tweets of a thread
InterTweetDelay == 1000
\* simulateDelay(1500) of the login in initialize()
LoginDelay == 1500
\* simulateDelay(500) of the release in close()
CloseDelay == 500

\* const { followUpCount = 3, ... } = options, and data.followUpCount || 3
DefaultFollowUpCount == 3

\* ------------------------------------------------------------ optionals
\* A value that may be undefined: <<>> is undefined, <<x>> is x.
None == <<>>
Some(x) == <<x>>
IsSome(o) == o # <<>>
TheValue(o) == o[1]

\* ------------------------------------------------------------- variables
VARIABLES
    \* TwitterAutomation
    isLoggedIn,       \* private isLoggedIn
    \* the postThread activation
    pc,               \* where the activation stands
    tweets,           \* parameter tweets
    options,          \* parameter options: scheduledTime, mediaFiles
    results,          \* const results
    previousTweetId,  \* let previousTweetId
    i,                \* loop index of postThread (0-based, as in the code)
    tweetOptions,     \* the TweetOptions of the postTweet call in progress
    attempt,          \* loop index of withRetry (1-based, as in the code)
    lastError,        \* let lastError of withRetry
    thrown,           \* the error that escaped postThread, if one did
    \* the environment
    failsLeft,        \* failures the publish action still has in store for this post
    now,              \* Date.now(), in ms since the call
    \* what an observer of the calls and the console sees
    loggedInAtCall,   \* isLoggedIn when postThread was called
    calls,            \* the TweetOptions of every postTweet call, in order
    attempts,         \* every run of the publish action: post, attempt, ok
    warnings,         \* every console.warn of withRetry: post, attempt, message
    delays,           \* every simulateDelay taken: kind, post, ms
    initCalls,        \* calls of initialize() since postThread was called
    closeCalls,       \* calls of close() that released the session
    sessionOps,       \* the direct calls of initialize() and close(): op, before, after, ms
    \* generateThread and its caller
    gpc,              \* where the generation stands
    request,          \* the 'generate' request: via, topic, followUpCount, style, includeCTA
    genArgs,          \* generateThread's arguments: topic, options
    hookTweet,        \* const hookTweet
    followUpTweets,   \* const followUpTweets of generateFollowUpTweets
    fi,               \* loop index of generateFollowUpTweets
    generatedPrompt,  \* const generatedPrompt of the post being generated
    stage,            \* role of the post being generated: hook, followup, cta
    thread,           \* generateThread's return value
    response,         \* the route's response: status, error
    llmCalls,         \* number of calls of the generative backend
    lastPrompt,       \* the prompt of the latest callLLM
    lastText,         \* the text the latest callLLM returned
    lastOutcome,      \* what the backend did in the latest callLLM
    graised,          \* the error that escaped generateThread, if one did
    \* the 'post' action of the route
    rpc,              \* where the handler stands
    postRequest,      \* the request body: tweets, credentials
    postResponse,     \* the response: status, results, error
    \* two postThread invocations in flight at once, each on its own session
    inv,              \* per invocation: its session's isLoggedIn and its locals
    clock             \* Date.now(), shared by the invocations

pubVars == <<isLoggedIn, pc, tweets, options, results, previousTweetId, i,
             tweetOptions, attempt, lastError, thrown, failsLeft, now,
             loggedInAtCall, calls, attempts, warnings, delays, initCalls,
             closeCalls, sessionOps>>

genVars == <<gpc, request, genArgs, hookTweet, followUpTweets, fi,
             generatedPrompt, stage, thread, response, llmCalls, lastPrompt,
             lastText, lastOutcome, graised>>

routeVars == <<rpc, postRequest, postResponse>>

concVars == <<inv, clock>>

vars == <<pubVars, genVars, routeVars, concVars>>

\* ------------------------------------------------------- publish: inputs
Texts == {"a", "b"}
TweetLists == UNION {[1..n -> Texts] : n \in 0..MaxTweets}
ScheduledTimes == {None, Some("T1")}
MediaList == <<"pic.png">>
OtherMediaList == <<"clip.mp4", "chart.png">>
\* options.mediaFiles: undefined, or a Record<number, string[]> with one entry
MediaMaps == {None} \cup
    {Some([k \in 0..MaxTweets |-> IF k = j THEN Some(MediaList) ELSE None]) : j \in 0..1}
    \cup {Some([k \in 0..MaxTweets |-> IF k = 0 THEN Some(MediaList)
                                       ELSE IF k = 1 THEN Some(OtherMediaList) ELSE None])}
ThreadOptionSets == [scheduledTime : ScheduledTimes, mediaFiles : MediaMaps]

\* options.mediaFiles?.[i]
MediaLookup(mediaFiles, idx) ==
    IF IsSome(mediaFiles) /\ idx \in DOMAIN TheValue(mediaFiles)
    THEN TheValue(mediaFiles)[idx]
    ELSE None

\* The message of the error the publish action throws on its n-th attempt.
PublishError(n) == [text |-> "publish failed", n |-> n]
InitError == [text |-> "Failed to initialize Twitter session", n |-> 0]

\* ------------------------------------------------------ publish: results
\* { success: true, tweetId, url }
SuccessResult(id) ==
    [success |-> TRUE, tweetId |-> Some(id), url |-> Some(<<"status", id>>), error |-> None]
\* { success: false, error }
FailureResult(msg) ==
    [success |-> FALSE, tweetId |-> None, url |-> None, error |-> Some(msg)]

\* What a call hands back: a returned value or a thrown error.
Returned(v) == [kind |-> "return", value |-> v, error |-> None]
Threw(e) == [kind |-> "throw", value |-> FailureResult(e), error |-> Some(e)]

\* -------------------------------------------------- publish: postThread
\* A postThread that cuts a text over 280 characters down to the limit.
BuildTweetOptionsTruncating(tw, opts, idx, prev) ==
    [text |-> [tw[idx + 1] EXCEPT !.profile.long = FALSE],
     replyToTweetId |-> prev,
     scheduledTime |-> IF idx = 0 THEN opts.scheduledTime ELSE None,
     mediaFiles |-> MediaLookup(opts.mediaFiles, idx)]

\* A postThread that schedules every post of the thread.
BuildTweetOptionsScheduleAll(tw, opts, idx, prev) ==
    [text |-> tw[idx + 1],
     replyToTweetId |-> prev,
     scheduledTime |-> opts.scheduledTime,
     mediaFiles |-> MediaLookup(opts.mediaFiles, idx)]

\* A postThread that looks the media up under the post's 1-based number.
BuildTweetOptionsMediaByNumber(tw, opts, idx, prev) ==
    [text |-> tw[idx + 1],
     replyToTweetId |-> prev,
     scheduledTime |-> IF idx = 0 THEN opts.scheduledTime ELSE None,
     mediaFiles |-> MediaLookup(opts.mediaFiles, idx + 1)]

\* const tweetOptions = { text, replyToTweetId, scheduledTime, mediaFiles }
BuildTweetOptions(tw, opts, idx, prev) ==
    [text |-> tw[idx + 1],
     replyToTweetId |-> prev,
     scheduledTime |-> IF idx = 0 THEN opts.scheduledTime ELSE None,
     mediaFiles |-> MediaLookup(opts.mediaFiles, idx)]

\* A loop that never breaks: the posts after a failed one are still published.
NeverBreak(result) == FALSE

\* A loop that stops after the first post that was published.
BreakOnSuccess(result) == result.success

\* if (!result.success) break
BreakOnFailure(result) == ~result.success

\* A chain that hangs every reply on the first post of the thread.
KeepHookId(prev, result) == IF IsSome(prev) THEN prev ELSE result.tweetId

\* previousTweetId = result.tweetId
NextPreviousTweetId(prev, result) == result.tweetId

\* A postThread that waits after the last post as well.
MoreTweetsOrLast(idx, tw) == idx < Len(tw)

\* if (i < tweets.length - 1) await this.simulateDelay(1000)
MoreTweets(idx, tw) == idx < Len(tw) - 1

\* postThread from the return of postTweet to the next suspension point.
AfterPostTweet(result) ==
    /\ results' = Append(results, result)
    /\ thrown' = thrown
    /\ IF BreakOnFailure(result)
       THEN /\ pc' = "returned"
            /\ UNCHANGED <<previousTweetId, i>>
       ELSE /\ previousTweetId' = NextPreviousTweetId(previousTweetId, result)
            /\ IF MoreTweets(i, tweets)
               THEN pc' = "interDelay" /\ i' = i
               ELSE pc' = "returned" /\ i' = i + 1

\* postThread has no try: what postTweet throws escapes it.
CompleteTweet(outcome) ==
    IF outcome.kind = "throw"
    THEN /\ thrown' = outcome.error
         /\ pc' = "thrown"
         /\ UNCHANGED <<results, previousTweetId, i>>
    ELSE AfterPostTweet(outcome.value)

\* A postThread that logs the session in before it looks at the list.
PostThreadLoginFirst ==
    /\ UNCHANGED <<genVars, routeVars, concVars>>
    /\ pc = "idle"
    /\ \E tw \in TweetLists, opts \in ThreadOptionSets :
        /\ tweets' = tw
        /\ options' = opts
        /\ pc' = IF Len(tw) = 0 THEN "returned" ELSE "loop"
    /\ results' = <<>>
    /\ previousTweetId' = None
    /\ i' = 0
    /\ thrown' = None
    /\ loggedInAtCall' = isLoggedIn
    /\ isLoggedIn' = TRUE
    /\ initCalls' = 1
    /\ now' = LoginDelay
    /\ calls' = <<>>
    /\ attempts' = <<>>
    /\ warnings' = <<>>
    /\ delays' = <<[kind |-> "login", post |-> 0, ms |-> LoginDelay]>>
    /\ closeCalls' = 0
    /\ sessionOps' = <<>>
    /\ UNCHANGED <<tweetOptions, attempt, lastError, failsLeft>>

\* postThread(tw, opts) is called on a session whose isLoggedIn is session: the
\* empty list returns at once, any other list enters the loop.
PostThreadWith(tw, opts, session) ==
    /\ pc = "idle"
    /\ tweets' = tw
    /\ options' = opts
    /\ pc' = IF Len(tw) = 0 THEN "returned" ELSE "loop"
    /\ results' = <<>>
    /\ previousTweetId' = None
    /\ i' = 0
    /\ thrown' = None
    /\ isLoggedIn' = session
    /\ loggedInAtCall' = session
    /\ now' = 0
    /\ calls' = <<>>
    /\ attempts' = <<>>
    /\ warnings' = <<>>
    /\ delays' = <<>>
    /\ initCalls' = 0
    /\ closeCalls' = 0
    /\ sessionOps' = <<>>
    /\ UNCHANGED <<tweetOptions, attempt, lastError, failsLeft>>

\* postThread is called directly, with the session as it stands.
PostThread ==
    /\ UNCHANGED <<genVars, routeVars, concVars>>
    /\ \E tw \in TweetLists, opts \in ThreadOptionSets :
        PostThreadWith(tw, opts, isLoggedIn)

\* A postTweet that trusts the session to be logged in.
NeverInitialize(loggedIn) == FALSE

\* A postTweet that logs in before every post.
AlwaysInitialize(loggedIn) == TRUE

\* if (!this.isLoggedIn) { const initialized = await this.initialize(); ... }
NeedsInitialize(loggedIn) == ~loggedIn

\* The head of the loop body and the entry of postTweet, up to its first await.
PostTweet ==
    /\ UNCHANGED <<genVars, routeVars, concVars>>
    /\ pc = "loop"
    /\ LET o == BuildTweetOptions(tweets, options, i, previousTweetId) IN
        /\ tweetOptions' = Some(o)
        /\ calls' = Append(calls, o)
    /\ \E k \in 0..MaxFails : failsLeft' = k
    /\ attempt' = 1
    /\ lastError' = None
    /\ pc' = IF NeedsInitialize(isLoggedIn) THEN "init" ELSE "attempt"
    /\ UNCHANGED <<isLoggedIn, tweets, options, results, previousTweetId, i, thrown,
                   now, loggedInAtCall, attempts, warnings, delays, initCalls, closeCalls, sessionOps>>

\* A withRetry that keeps the error of the first failed attempt.
KeepFirstError(prev, msg) == IF IsSome(prev) THEN prev ELSE Some(msg)

\* ------------------------------------------- publish: postTweet, withRetry
\* lastError = error instanceof Error ? error : new Error(String(error))
RecordLastError(prev, msg) == Some(msg)

\* A withRetry that gives up one attempt early.
RetryAgainShort(n) == n < RetryCount - 1

\* A withRetry that retries for as long as the attempt fails.
RetryAgainForever(n) == TRUE

\* for (...; attempt <= this.retryCount; ...) with if (attempt < this.retryCount):
\* a failed attempt is followed by another one
RetryAgain(n) == n < RetryCount

\* A withRetry that backs off: the n-th retry waits n times as long.
RetryDelayBackoff(n) == RetryDelay * n

\* await this.simulateDelay(this.retryDelay) after the failed attempt n
RetryDelayMs(n) == RetryDelay

\* throw lastError || new Error('Operation failed after retries')
ThrowAfterRetries(err) ==
    IF IsSome(err) THEN TheValue(err) ELSE [text |-> "Operation failed after retries", n |-> 0]

\* A postTweet without its catch: the error of withRetry goes on to the caller.
PostTweetRethrow(err) == Threw(err)

\* postTweet's catch: return { success: false, error: error.message }
PostTweetCatch(err) == Returned(FailureResult(err))

\* The publish action's own delays: 1000 ms, 500 ms per media file, 500 ms to schedule.
PublishDuration(o) ==
    1000 + (IF IsSome(o.mediaFiles) THEN Len(TheValue(o.mediaFiles)) * 500 ELSE 0)
         + (IF IsSome(o.scheduledTime) THEN 500 ELSE 0)

\* initialize() awaited by postTweet succeeds: the session is logged in, withRetry starts.
InitializeOk ==
    /\ UNCHANGED <<genVars, routeVars, concVars>>
    /\ pc = "init"
    /\ isLoggedIn' = TRUE
    /\ initCalls' = initCalls + 1
    /\ delays' = Append(delays, [kind |-> "login", post |-> i, ms |-> LoginDelay])
    /\ now' = now + LoginDelay
    /\ pc' = "attempt"
    /\ UNCHANGED <<tweets, options, results, previousTweetId, i, tweetOptions, attempt,
                   lastError, thrown, failsLeft, loggedInAtCall, calls, attempts,
                   warnings, closeCalls, sessionOps>>

\* initialize() catches an error of the login and returns false: postTweet returns
\* { success: false, error: 'Failed to initialize Twitter session' } to postThread.
InitializeFails ==
    /\ UNCHANGED <<genVars, routeVars, concVars>>
    /\ pc = "init"
    /\ initCalls' = initCalls + 1
    /\ AfterPostTweet(FailureResult(InitError))
    /\ UNCHANGED <<isLoggedIn, tweets, options, tweetOptions, attempt, lastError,
                   failsLeft, now, loggedInAtCall, calls, attempts, warnings, delays,
                   closeCalls, sessionOps>>

\* One attempt of withRetry whose publish action succeeds: postTweet returns the
\* result and postThread goes on.
AttemptOk ==
    /\ UNCHANGED <<genVars, routeVars, concVars>>
    /\ pc = "attempt"
    /\ failsLeft = 0
    /\ attempts' = Append(attempts, [post |-> i, attempt |-> attempt, ok |-> TRUE])
    /\ now' = now + PublishDuration(TheValue(tweetOptions))
    /\ CompleteTweet(Returned(SuccessResult(now')))
    /\ UNCHANGED <<isLoggedIn, tweets, options, tweetOptions, attempt, lastError,
                   failsLeft, loggedInAtCall, calls, warnings, delays, initCalls,
                   closeCalls, sessionOps>>

\* A postTweet whose catch closes the session when the retries are used up.
AttemptFailsClosing ==
    /\ UNCHANGED <<genVars, routeVars, concVars>>
    /\ pc = "attempt"
    /\ failsLeft > 0
    /\ failsLeft' = failsLeft - 1
    /\ attempts' = Append(attempts, [post |-> i, attempt |-> attempt, ok |-> FALSE])
    /\ lastError' = RecordLastError(lastError, PublishError(attempt))
    /\ warnings' = Append(warnings,
            [post |-> i, attempt |-> attempt, message |-> TheValue(lastError')])
    /\ IF RetryAgain(attempt)
       THEN /\ pc' = "retryDelay"
            /\ UNCHANGED <<results, previousTweetId, i, thrown, attempt, isLoggedIn,
                           closeCalls>>
       ELSE /\ attempt' = attempt + 1
            /\ isLoggedIn' = FALSE
            /\ closeCalls' = closeCalls + 1
            /\ CompleteTweet(PostTweetCatch(ThrowAfterRetries(lastError')))
    /\ UNCHANGED <<tweets, options, tweetOptions, now, loggedInAtCall,
                   calls, delays, initCalls, sessionOps>>

\* One attempt of withRetry whose publish action throws: the error is kept and
\* logged; then either the retry delay starts or the last error is thrown to
\* postTweet, whose catch turns it into a result.
AttemptFails ==
    /\ UNCHANGED <<genVars, routeVars, concVars>>
    /\ pc = "attempt"
    /\ failsLeft > 0
    /\ failsLeft' = failsLeft - 1
    /\ attempts' = Append(attempts, [post |-> i, attempt |-> attempt, ok |-> FALSE])
    /\ lastError' = RecordLastError(lastError, PublishError(attempt))
    /\ warnings' = Append(warnings,
            [post |-> i, attempt |-> attempt, message |-> TheValue(lastError')])
    /\ IF RetryAgain(attempt)
       THEN /\ pc' = "retryDelay"
            /\ UNCHANGED <<results, previousTweetId, i, thrown, attempt>>
       ELSE /\ attempt' = attempt + 1
            /\ CompleteTweet(PostTweetCatch(ThrowAfterRetries(lastError')))
    /\ UNCHANGED <<isLoggedIn, tweets, options, tweetOptions, now, loggedInAtCall,
                   calls, delays, initCalls, closeCalls, sessionOps>>

\* await this.simulateDelay(this.retryDelay), then the next attempt
RetryWait ==
    /\ UNCHANGED <<genVars, routeVars, concVars>>
    /\ pc = "retryDelay"
    /\ delays' = Append(delays, [kind |-> "retry", post |-> i, ms |-> RetryDelayMs(attempt)])
    /\ now' = now + RetryDelayMs(attempt)
    /\ attempt' = attempt + 1
    /\ pc' = "attempt"
    /\ UNCHANGED <<isLoggedIn, tweets, options, results, previousTweetId, i,
                   tweetOptions, lastError, thrown, failsLeft, loggedInAtCall, calls,
                   attempts, warnings, initCalls, closeCalls, sessionOps>>

\* await this.simulateDelay(1000) between two tweets, then i++
InterTweetWait ==
    /\ UNCHANGED <<genVars, routeVars, concVars>>
    /\ pc = "interDelay"
    /\ delays' = Append(delays, [kind |-> "inter", post |-> i, ms |-> InterTweetDelay])
    /\ now' = now + InterTweetDelay
    /\ i' = i + 1
    /\ pc' = "loop"
    /\ UNCHANGED <<isLoggedIn, tweets, options, results, previousTweetId, tweetOptions,
                   attempt, lastError, thrown, failsLeft, loggedInAtCall, calls,
                   attempts, warnings, initCalls, closeCalls, sessionOps>>

\* Nothing is left of a postThread activation and of what was observed of it.
ForgetActivation ==
    /\ pc' = "idle"
    /\ tweets' = <<>>
    /\ options' = [scheduledTime |-> None, mediaFiles |-> None]
    /\ results' = <<>>
    /\ previousTweetId' = None
    /\ i' = 0
    /\ tweetOptions' = None
    /\ attempt' = 1
    /\ lastError' = None
    /\ thrown' = None
    /\ failsLeft' = 0
    /\ now' = 0
    /\ loggedInAtCall' = FALSE
    /\ calls' = <<>>
    /\ attempts' = <<>>
    /\ warnings' = <<>>
    /\ delays' = <<>>
    /\ initCalls' = 0
    /\ closeCalls' = 0
    /\ sessionOps' = <<>>

\* The caller has the result list (or the error) of postThread in hand: the
\* activation and what was observed of it are gone, the session stays as it is.
PostThreadDone ==
    /\ UNCHANGED <<genVars, routeVars, concVars>>
    /\ pc \in {"returned", "thrown"}
    /\ ForgetActivation
    /\ UNCHANGED isLoggedIn

\* A close() that releases whatever the session is.
CloseAlways(loggedIn) == TRUE

\* if (this.isLoggedIn) { ... }
CloseReleases(loggedIn) == loggedIn

\* close(): if the session is logged in, the release delay is taken and isLoggedIn
\* is set to false; otherwise nothing is done. It has no throw.
CloseSession ==
    IF CloseReleases(isLoggedIn)
    THEN /\ isLoggedIn' = FALSE
         /\ closeCalls' = closeCalls + 1
         /\ sessionOps' = Append(sessionOps,
                [op |-> "close", before |-> isLoggedIn, after |-> FALSE,
                 ms |-> CloseDelay, ok |-> TRUE])
    ELSE /\ UNCHANGED <<isLoggedIn, closeCalls>>
         /\ sessionOps' = Append(sessionOps,
                [op |-> "close", before |-> isLoggedIn, after |-> isLoggedIn,
                 ms |-> 0, ok |-> TRUE])

\* close() called directly on a session that runs no postThread.
Close ==
    /\ UNCHANGED <<genVars, routeVars, concVars>>
    /\ pc = "idle"
    /\ Len(sessionOps) < MaxSessionOps
    /\ CloseSession
    /\ UNCHANGED <<pc, tweets, options, results, previousTweetId, i, tweetOptions,
                   attempt, lastError, thrown, failsLeft, now, loggedInAtCall, calls,
                   attempts, warnings, delays, initCalls>>

\* initialize() called directly on a session that runs no postThread: whatever
\* isLoggedIn is, the login is run; it sets isLoggedIn and returns true, or its
\* error is caught and false is returned.
InitializeCall ==
    /\ UNCHANGED <<genVars, routeVars, concVars>>
    /\ pc = "idle"
    /\ Len(sessionOps) < MaxSessionOps
    /\ \E ok \in BOOLEAN :
        /\ isLoggedIn' = (IF ok THEN TRUE ELSE isLoggedIn)
        /\ sessionOps' = Append(sessionOps,
                [op |-> "initialize", before |-> isLoggedIn, after |-> isLoggedIn',
                 ms |-> IF ok THEN LoginDelay ELSE 0, ok |-> ok])
    /\ UNCHANGED <<pc, tweets, options, results, previousTweetId, i, tweetOptions,
                   attempt, lastError, thrown, failsLeft, now, loggedInAtCall, calls,
                   attempts, warnings, delays, initCalls, closeCalls>>

PublishInit ==
    /\ isLoggedIn = FALSE
    /\ pc = "idle"
    /\ tweets = <<>>
    /\ options = [scheduledTime |-> None, mediaFiles |-> None]
    /\ results = <<>>
    /\ previousTweetId = None
    /\ i = 0
    /\ tweetOptions = None
    /\ attempt = 1
    /\ lastError = None
    /\ thrown = None
    /\ failsLeft = 0
    /\ now = 0
    /\ loggedInAtCall = FALSE
    /\ calls = <<>>
    /\ attempts = <<>>
    /\ warnings = <<>>
    /\ delays = <<>>
    /\ initCalls = 0
    /\ closeCalls = 0
    /\ sessionOps = <<>>

\* ------------------------------- publish: two invocations at once, inputs
\* Two 'post' requests in flight: each has its own TwitterAutomation and its own
\* postThread activation.
Invocations == {1, 2}
\* The posts of the two requests differ, so that a call tells whose it is.
ConcText(k) == IF k = 1 THEN "a" ELSE "b"
ConcTweetLists(k) == {[j \in 1..n |-> ConcText(k)] : n \in 1..MaxConcTweets}
\* Failures the publish action has in store for a post: none, one, or enough to
\* exhaust withRetry.
ConcFails == {0, 1, RetryCount}
\* postThread(data.tweets, {}) with neither schedule nor media
NoOptions == [scheduledTime |-> None, mediaFiles |-> None]
\* A new TwitterAutomation and no activation yet. plan is the observer's record
\* of what the environment did for each post: login, failures, id.
IdleInvocation ==
    [pc |-> "idle", isLoggedIn |-> FALSE, tweets |-> <<>>, results |-> <<>>,
     previousTweetId |-> None, i |-> 0, attempt |-> 1, lastError |-> None,
     failsLeft |-> 0, calls |-> <<>>, plan |-> <<>>]

ConcInit ==
    /\ inv = [k \in Invocations |-> IdleInvocation]
    /\ clock = 0

RouteInit ==
    /\ rpc = "idle"
    /\ postRequest = None
    /\ postResponse = None

GenerateInit ==
    /\ gpc = "idle"
    /\ request = None
    /\ genArgs = None
    /\ hookTweet = None
    /\ followUpTweets = <<>>
    /\ fi = 0
    /\ generatedPrompt = None
    /\ stage = "none"
    /\ thread = <<>>
    /\ response = None
    /\ llmCalls = 0
    /\ lastPrompt = None
    /\ lastText = None
    /\ lastOutcome = "none"
    /\ graised = None

Init == PublishInit /\ GenerateInit /\ RouteInit /\ ConcInit

PublishNext ==
    \/ PostThread
    \/ PostTweet
    \/ InitializeOk
    \/ InitializeFails
    \/ AttemptOk
    \/ AttemptFails
    \/ RetryWait
    \/ InterTweetWait
    \/ PostThreadDone
    \/ Close
    \/ InitializeCall

PublishSpec == Init /\ [][PublishNext]_vars

\* The steps of one postThread activation. Every await of the activation (the
\* simulated login, the publish attempt, the retry delay, the delay between posts)
\* settles, so the activation is never suspended forever.
PostThreadStep ==
    \/ PostTweet
    \/ InitializeOk
    \/ InitializeFails
    \/ AttemptOk
    \/ AttemptFails
    \/ RetryWait
    \/ InterTweetWait

PublishLiveSpec == Init /\ [][PublishNext]_vars /\ WF_vars(PostThreadStep)

\* ------------------------------------------------ route: the 'post' action
\* data.credentials: absent, or with an empty or a non-empty username and password
CredentialSets == {None} \cup
    {Some(c) : c \in [username : {"", "user"}, password : {"", "secret"}]}
\* data.scheduledTime: absent, empty, or a date string
RequestScheduledTimes == {None, Some(""), Some("T1")}
\* The bodies of { action: 'post', ... } requests; tweets absent or an array.
PostRequests ==
    [tweets : {None} \cup {Some(tw) : tw \in TweetLists},
     credentials : CredentialSets,
     scheduledTime : RequestScheduledTimes,
     mediaFiles : MediaMaps]

\* A validation that asks for a username only.
PostRejectsNoPassword(req) ==
    IF req.tweets = None \/ Len(TheValue(req.tweets)) = 0
    THEN Some("Tweets array is required")
    ELSE IF req.credentials = None \/ TheValue(req.credentials).username = ""
    THEN Some("Twitter credentials are required")
    ELSE None

\* The two 400 answers of the 'post' action, or None for a request it accepts.
PostRejects(req) ==
    IF req.tweets = None \/ Len(TheValue(req.tweets)) = 0
    THEN Some("Tweets array is required")
    ELSE IF \/ req.credentials = None
            \/ TheValue(req.credentials).username = ""
            \/ TheValue(req.credentials).password = ""
    THEN Some("Twitter credentials are required")
    ELSE None

\* data.scheduledTime ? new Date(data.scheduledTime) : undefined
RouteScheduledTime(st) == IF IsSome(st) /\ TheValue(st) # "" THEN st ELSE None

\* A 'post' request arrives: it is answered 400, or a new TwitterAutomation (not
\* logged in) is made and postThread is called on it.
RoutePost ==
    /\ UNCHANGED <<genVars, concVars>>
    /\ rpc = "idle"
    /\ \E req \in PostRequests :
        /\ postRequest' = Some(req)
        /\ IF IsSome(PostRejects(req))
           THEN /\ postResponse' = Some([status |-> 400, error |-> PostRejects(req),
                                         results |-> None])
                /\ rpc' = "responded"
                /\ UNCHANGED pubVars
           ELSE /\ postResponse' = None
                /\ rpc' = "posting"
                /\ PostThreadWith(TheValue(req.tweets),
                                  [scheduledTime |-> RouteScheduledTime(req.scheduledTime),
                                   mediaFiles |-> req.mediaFiles],
                                  FALSE)

\* A route that closes the session only after a thread published in full.
RouteCloseAfterFullThread ==
    /\ UNCHANGED <<genVars, concVars>>
    /\ rpc = "posting"
    /\ pc \in {"returned", "thrown"}
    /\ IF pc = "returned" /\ \A j \in 1..Len(results) : results[j].success
       THEN CloseSession
       ELSE UNCHANGED <<isLoggedIn, closeCalls, sessionOps>>
    /\ rpc' = "closed"
    /\ UNCHANGED <<pc, tweets, options, results, previousTweetId, i, tweetOptions,
                   attempt, lastError, thrown, failsLeft, now, loggedInAtCall, calls,
                   attempts, warnings, delays, initCalls, postRequest, postResponse>>

\* postThread has returned its list, or has thrown: await twitter.close(), in the
\* try after postThread and in the catch before the rethrow.
RouteClose ==
    /\ UNCHANGED <<genVars, concVars>>
    /\ rpc = "posting"
    /\ pc \in {"returned", "thrown"}
    /\ IF pc = "returned"
       THEN CloseSession
       ELSE CloseSession
    /\ rpc' = "closed"
    /\ UNCHANGED <<pc, tweets, options, results, previousTweetId, i, tweetOptions,
                   attempt, lastError, thrown, failsLeft, now, loggedInAtCall, calls,
                   attempts, warnings, delays, initCalls, postRequest, postResponse>>

\* return NextResponse.json({ results }), or the rethrown error answered 500 by
\* the outer catch.
RouteRespond ==
    /\ UNCHANGED <<genVars, pubVars, concVars>>
    /\ rpc = "closed"
    /\ postResponse' =
            IF pc = "returned"
            THEN Some([status |-> 200, error |-> None, results |-> Some(results)])
            ELSE Some([status |-> 500, error |-> Some("thrown"), results |-> None])
    /\ rpc' = "responded"
    /\ UNCHANGED postRequest

\* The request is over: its TwitterAutomation is gone with it.
RouteDone ==
    /\ UNCHANGED <<genVars, concVars>>
    /\ rpc = "responded"
    /\ ForgetActivation
    /\ isLoggedIn' = FALSE
    /\ rpc' = "idle"
    /\ postRequest' = None
    /\ postResponse' = None

PostRouteNext ==
    \/ RoutePost
    \/ PostTweet
    \/ InitializeOk
    \/ InitializeFails
    \/ AttemptOk
    \/ AttemptFails
    \/ RetryWait
    \/ InterTweetWait
    \/ RouteClose
    \/ RouteRespond
    \/ RouteDone

PostRouteSpec == Init /\ [][PostRouteNext]_vars

\* ---------------------------------------- publish: two invocations at once
\* A previousTweetId kept in one place for all invocations: the id published last.
ConcPreviousShared(k) ==
    LET ids == {TheValue(inv[j].previousTweetId) :
                    j \in {h \in Invocations : IsSome(inv[h].previousTweetId)}}
    IN IF ids = {} THEN None
       ELSE Some(CHOOSE m \in ids : \A n \in ids : n <= m)

\* let previousTweetId: a local of the postThread activation
ConcPrevious(k) == inv[k].previousTweetId

\* postThread from the return of postTweet to the next suspension point, on the
\* locals r of one activation.
ConcAfterPostTweet(r, result) ==
    LET pushed == [r EXCEPT !.results = Append(r.results, result)] IN
    IF BreakOnFailure(result)
    THEN [pushed EXCEPT !.pc = "returned"]
    ELSE LET chained == [pushed EXCEPT !.previousTweetId =
                                NextPreviousTweetId(r.previousTweetId, result)]
         IN IF MoreTweets(r.i, r.tweets)
            THEN [chained EXCEPT !.pc = "interDelay"]
            ELSE [chained EXCEPT !.pc = "returned", !.i = r.i + 1]

\* A 'post' request makes its TwitterAutomation and calls postThread on it.
ConcPostThread ==
    /\ UNCHANGED <<pubVars, genVars, routeVars, clock>>
    /\ \E k \in Invocations :
        /\ inv[k].pc = "idle"
        /\ \E tw \in ConcTweetLists(k) :
            inv' = [inv EXCEPT ![k] = [IdleInvocation EXCEPT !.tweets = tw, !.pc = "loop"]]

\* The head of the loop body and the entry of postTweet, up to its first await.
ConcPostTweet ==
    /\ UNCHANGED <<pubVars, genVars, routeVars, clock>>
    /\ \E k \in Invocations :
        /\ inv[k].pc = "loop"
        /\ \E f \in ConcFails :
            LET r == inv[k]
                o == BuildTweetOptions(r.tweets, NoOptions, r.i, ConcPrevious(k))
            IN inv' = [inv EXCEPT ![k] =
                    [r EXCEPT !.calls = Append(r.calls, o),
                              !.failsLeft = f,
                              !.attempt = 1,
                              !.lastError = None,
                              !.plan = Append(r.plan, [init |-> "none", fails |-> f,
                                                       id |-> None]),
                              !.pc = IF NeedsInitialize(r.isLoggedIn) THEN "init"
                                     ELSE "attempt"]]

\* initialize() awaited by postTweet: it logs this invocation's session in, or it
\* returns false and postTweet returns the failed result.
ConcInitialize ==
    /\ UNCHANGED <<pubVars, genVars, routeVars, clock>>
    /\ \E k \in Invocations :
        /\ inv[k].pc = "init"
        /\ \E ok \in BOOLEAN :
            LET r == inv[k]
                n == Len(r.plan)
            IN inv' = [inv EXCEPT ![k] =
                    IF ok
                    THEN [r EXCEPT !.isLoggedIn = TRUE, !.pc = "attempt",
                                   !.plan[n].init = "ok"]
                    ELSE ConcAfterPostTweet([r EXCEPT !.plan[n].init = "fail"],
                                            FailureResult(InitError))]

\* One attempt of withRetry: the publish succeeds with the id tweet_<Date.now()>,
\* or it throws and either the next attempt follows the retry delay or the last
\* error becomes postTweet's failed result.
ConcAttempt ==
    /\ UNCHANGED <<pubVars, genVars, routeVars>>
    /\ \E k \in Invocations :
        LET r == inv[k]
            n == Len(r.plan)
        IN
        /\ r.pc = "attempt"
        /\ IF r.failsLeft = 0
           THEN \E id \in {clock, clock + 1} :
                /\ IF IsSome(r.previousTweetId) THEN id > TheValue(r.previousTweetId)
                   ELSE TRUE
                /\ clock' = id
                /\ inv' = [inv EXCEPT ![k] =
                        ConcAfterPostTweet([r EXCEPT !.plan[n].id = Some(id)],
                                           SuccessResult(id))]
           ELSE LET failed == [r EXCEPT !.failsLeft = r.failsLeft - 1,
                                        !.lastError = RecordLastError(r.lastError,
                                                            PublishError(r.attempt)),
                                        !.attempt = r.attempt + 1]
                IN /\ clock' = clock
                   /\ inv' = [inv EXCEPT ![k] =
                        IF RetryAgain(r.attempt)
                        THEN failed
                        ELSE ConcAfterPostTweet(failed,
                                PostTweetCatch(ThrowAfterRetries(failed.lastError)).value)]

\* await this.simulateDelay(1000) between two tweets, then i++
ConcInterWait ==
    /\ UNCHANGED <<pubVars, genVars, routeVars, clock>>
    /\ \E k \in Invocations :
        /\ inv[k].pc = "interDelay"
        /\ inv' = [inv EXCEPT ![k].i = inv[k].i + 1, ![k].pc = "loop"]

ConcNext ==
    \/ ConcPostThread
    \/ ConcPostTweet
    \/ ConcInitialize
    \/ ConcAttempt
    \/ ConcInterWait

ConcSpec == Init /\ [][ConcNext]_vars

\* ------------------------------------------------- publish: observations
\* The attempts of the publish action made for post p (0-based), in order.
AttemptsOf(p) == SelectSeq(attempts, LAMBDA a : a.post = p)
FailedAttemptsOf(p) == SelectSeq(attempts, LAMBDA a : a.post = p /\ ~a.ok)
WarningsOf(p) == SelectSeq(warnings, LAMBDA w : w.post = p)
\* postTweet has just returned its result for the last post of results.
TweetJustReturned == pc \in {"interDelay", "returned"} /\ Len(results) > 0
LastPost == Len(results) - 1
\* The failures the publish action had in store when postTweet was called.
PlannedFails == Len(FailedAttemptsOf(LastPost)) + failsLeft
\* The last post's result is withRetry's, not the failed login's.
PublishWasTried == results[Len(results)].error # Some(InitError)

\* C2: the first postTweet call carries no replyToTweetId, and the call for every
\* later post carries the id returned by the successful publish of the post just
\* before it.
C2_ReplyChain ==
    \A j \in 1..Len(calls) :
        IF j = 1
        THEN calls[j].replyToTweetId = None
        ELSE /\ j - 1 <= Len(results)
             /\ results[j - 1].success
             /\ IsSome(results[j - 1].tweetId)
             /\ calls[j].replyToTweetId = results[j - 1].tweetId

\* Three posts published with three different ids, the third hung on the second.
C2_Witness ==
    /\ pc = "returned"
    /\ Len(results) = 3
    /\ results[3].success
    /\ results[1].tweetId # results[2].tweetId
    /\ calls[3].replyToTweetId = results[2].tweetId
    /\ calls[3].replyToTweetId # results[1].tweetId

\* C3: once the publish of post k has failed, postThread has returned, results
\* has exactly k+1 entries (k successes, then the failure), and no postTweet call
\* and no attempt was made for a later post.
C3_AbortOnFailure ==
    \A j \in 1..Len(results) :
        ~results[j].success =>
            /\ pc = "returned"
            /\ Len(results) = j
            /\ \A m \in 1..(j - 1) : results[m].success
            /\ Len(calls) = j
            /\ \A n \in 1..Len(attempts) : attempts[n].post <= j - 1

\* The second of three posts exhausted its retries: two results, the third untried.
C3_Witness ==
    /\ pc = "returned"
    /\ Len(tweets) = 3
    /\ Len(results) = 2
    /\ results[1].success
    /\ ~results[2].success
    /\ Len(AttemptsOf(1)) = RetryCount
    /\ Len(calls) = 2

\* C4: postThread of the empty list returns the empty list and leaves the session
\* alone: no initialize, no postTweet call, no attempt, no delay, isLoggedIn as it was.
C4_EmptyThread ==
    (pc \in {"returned", "thrown"} /\ tweets = <<>>) =>
        /\ pc = "returned"
        /\ results = <<>>
        /\ initCalls = 0
        /\ calls = <<>>
        /\ attempts = <<>>
        /\ delays = <<>>
        /\ closeCalls = 0
        /\ isLoggedIn = loggedInAtCall

\* postThread([]) has returned on a session that was not logged in.
C4_Witness ==
    /\ pc = "returned"
    /\ tweets = <<>>
    /\ ~loggedInAtCall

\* C5: when the publish action of a post fails k times and would then succeed,
\* with k+1 <= retryCount, postTweet returns a success, exactly k warnings were
\* logged for the post (attempts 1..k), and the successful attempt k+1 was the last.
C5_RetryUntilSuccess ==
    (TweetJustReturned /\ PublishWasTried /\ PlannedFails + 1 <= RetryCount) =>
        LET k == PlannedFails
            tried == AttemptsOf(LastPost) IN
        /\ results[Len(results)].success
        /\ IsSome(results[Len(results)].tweetId)
        /\ Len(WarningsOf(LastPost)) = k
        /\ \A n \in 1..k : WarningsOf(LastPost)[n].attempt = n
        /\ Len(tried) = k + 1
        /\ \A n \in 1..(k + 1) : tried[n].attempt = n /\ (tried[n].ok <=> n = k + 1)

\* A post that failed on attempts 1 and 2 and was published on attempt 3.
C5_Witness ==
    /\ TweetJustReturned
    /\ results[Len(results)].success
    /\ Len(WarningsOf(LastPost)) = 2
    /\ Len(AttemptsOf(LastPost)) = 3

\* C6: no post gets more than retryCount attempts, and when the publish action
\* fails on all of them postTweet returns success = false with the message of the
\* last failed attempt.
C6_RetryExhaustion ==
    /\ \A p \in 0..MaxTweets : Len(AttemptsOf(p)) <= RetryCount
    /\ (TweetJustReturned /\ PublishWasTried /\ PlannedFails >= RetryCount) =>
            LET tried == AttemptsOf(LastPost) IN
            /\ ~results[Len(results)].success
            /\ Len(tried) = RetryCount
            /\ \A n \in 1..Len(tried) : ~tried[n].ok
            /\ results[Len(results)].error = Some(PublishError(tried[Len(tried)].attempt))

\* A single post whose three attempts all failed; its error is the third's.
C6_Witness ==
    /\ pc = "returned"
    /\ Len(results) = 1
    /\ ~results[1].success
    /\ Len(AttemptsOf(0)) = RetryCount
    /\ results[1].error = Some(PublishError(RetryCount))
    /\ results[1].error # Some(PublishError(1))

\* Every entry of results is a well-formed TwitterResult.
WellFormedResult(r) ==
    /\ r.success \in BOOLEAN
    /\ r.success => IsSome(r.tweetId) /\ IsSome(r.url) /\ r.error = None
    /\ ~r.success => IsSome(r.error) /\ r.tweetId = None

\* C7: no error escapes postTweet or postThread, whatever the publish action
\* does: a failed post is an entry of the result list, which is well formed and
\* no longer than the input.
C7_FailureIsData ==
    /\ thrown = None
    /\ pc # "thrown"
    /\ Len(results) <= Len(tweets)
    /\ \A j \in 1..Len(results) : WellFormedResult(results[j])
    /\ (TweetJustReturned /\ PublishWasTried /\ PlannedFails >= RetryCount) =>
            ~results[Len(results)].success

\* postThread has returned a list whose last entry is a post that exhausted its retries.
C7_Witness ==
    /\ pc = "returned"
    /\ thrown = None
    /\ Len(tweets) = 3
    /\ Len(results) = 3
    /\ results[2].success
    /\ ~results[3].success
    /\ results[3].error = Some(PublishError(RetryCount))

\* ------------------------------------------------------ generate: inputs
\* The topic: absent, empty, blank, or a real one.
Topics == {None, Some(""), Some(" "), Some("ai tools")}
FollowUpCounts == {None} \cup {Some(n) : n \in (-1)..MaxFollowUps}
IncludeCTAs == {None, Some(TRUE), Some(FALSE)}
\* style: absent, an object that sets contentType and emojiUsage and leaves
\* formatting unset, or an object that sets contentType alone
StyleObjects ==
    {[contentType |-> Some("promotional"), emojiUsage |-> Some("Minimal emojis"),
      formatting |-> None],
     [contentType |-> Some("promotional"), emojiUsage |-> None, formatting |-> None]}
Styles == {None} \cup {Some(o) : o \in StyleObjects}
Requests ==
    [via : {"direct", "route"}, topic : Topics, followUpCount : FollowUpCounts,
     style : Styles, includeCTA : IncludeCTAs]

\* JavaScript truthiness of an optional string and of an optional number
TruthyString(o) == IsSome(o) /\ TheValue(o) # ""
TruthyNumber(o) == IsSome(o) /\ TheValue(o) # 0
\* topic.trim() is empty
Blank(o) == IsSome(o) /\ TheValue(o) \in {"", " "}

\* ------------------------------------------------- generate: the backend
\* What one chat.completions.create call does: it returns a text, returns no
\* content, or throws.
BackendOutcomes == {"text", "empty", "throws"}

\* What analyzeTweet can find in a text: emojiCount > 0, usesBulletPoints, contentType
\* and whether tweetLength is over the 280 characters the prompts ask for
Profiles == [emoji : BOOLEAN, bullets : BOOLEAN, contentType : {"general", "educational"},
             long : BOOLEAN]
PlainProfile == [emoji |-> FALSE, bullets |-> FALSE, contentType |-> "general",
                 long |-> FALSE]

\* The text a callLLM returned for call src (role, tweet number, phase).
\* kind generated: the backend's content;
\* kind failedPlaceholder: `Failed to generate content for: ${prompt.substring(0, 50)}...`;
\* kind errorPlaceholder: 'Error generating content. Please try again later.'
Text(kind, src, echo, profile) ==
    [kind |-> kind, src |-> src, echo |-> echo, profile |-> profile]

\* prompt.substring(0, 50): which prompt the echo is cut from
Truncate50(prompt) == Some([kind |-> prompt.kind, src |-> prompt.src])

\* A callLLM whose catch is missing: the backend's error goes on to the caller.
CallLLMNoCatch(prompt, src, outcome, profile) ==
    CASE outcome = "text" -> Returned(Text("generated", src, None, profile))
      [] outcome = "empty" ->
            Returned(Text("failedPlaceholder", src, Truncate50(prompt), profile))
      [] OTHER -> [kind |-> "throw", value |-> Text("errorPlaceholder", src, None, PlainProfile),
                   error |-> Some("backend error")]

\* callLLM(prompt): never throws
CallLLM(prompt, src, outcome, profile) ==
    CASE outcome = "text" -> Returned(Text("generated", src, None, profile))
      [] outcome = "empty" ->
            Returned(Text("failedPlaceholder", src, Truncate50(prompt), profile))
      [] OTHER -> Returned(Text("errorPlaceholder", src, None, PlainProfile))

\* The profiles analyzeTweet can find in the hook a call returns: anything in the
\* backend's own words, nothing in the two placeholder strings.
PossibleProfiles(prompt, outcome, role, phase) ==
    IF role = "hook" /\ phase = "post" /\ outcome = "text"
    THEN Profiles
    ELSE {PlainProfile}

\* ---------------------------------------------- generate: generatePrompt
\* The meta-prompt: the lines of the template that are present.
MetaPrompt(promptType, context) ==
    [kind |-> "meta",
     src |-> <<promptType, context.tweetNumber, "meta">>,
     promptType |-> promptType,
     topic |-> context.topic,
     style |-> context.style,
     hookTweet |-> context.hookTweet,
     previousTweet |-> context.previousTweet,
     tweetNumber |-> IF context.tweetNumber # 0 THEN Some(context.tweetNumber) ELSE None,
     \* the template has no line that reads context.ctaTypes
     ctaTypes |-> None]

\* A generatePrompt that hands the meta-prompt itself on as the prompt of the post.
GeneratedPromptIsMeta(metaPrompt, answer) == metaPrompt

\* A generatePrompt that falls back to the meta-prompt when the backend gave no prompt.
GeneratedPromptFallback(metaPrompt, answer) ==
    IF answer.kind = "generated" THEN answer ELSE metaPrompt

\* const response = await callLLM(metaPrompt); return response.text
GeneratedPromptOf(metaPrompt, answer) == answer

\* A follow-up style that passes on the caller's emojiUsage and adds no cue of the hook's.
FollowUpStyleNoEmojiCue(style, hookProfile) ==
    LET given == IF IsSome(style) THEN TheValue(style)
                 ELSE [contentType |-> None, emojiUsage |-> None, formatting |-> None]
    IN Some([contentType |-> IF IsSome(given.contentType) THEN given.contentType
                             ELSE Some(hookProfile.contentType),
             emojiUsage |-> given.emojiUsage,
             formatting |-> Some(IF hookProfile.bullets THEN "Use bullet points"
                                 ELSE "No bullet points")])

\* style of the follow-up context: { ...(style || {}), contentType, emojiUsage, formatting }
FollowUpStyle(style, hookProfile) ==
    LET given == IF IsSome(style) THEN TheValue(style)
                 ELSE [contentType |-> None, emojiUsage |-> None, formatting |-> None]
    IN Some([contentType |-> IF IsSome(given.contentType) THEN given.contentType
                             ELSE Some(hookProfile.contentType),
             emojiUsage |-> Some(IF hookProfile.emoji THEN "Include emojis"
                                 ELSE "Minimal emojis"),
             formatting |-> Some(IF hookProfile.bullets THEN "Use bullet points"
                                 ELSE "No bullet points")])

\* A destructuring whose default is 1 follow-up.
EffFollowUpCountOne(opts) ==
    IF IsSome(opts.followUpCount) THEN TheValue(opts.followUpCount) ELSE 1

\* The effective options of generateThread:
\* const { followUpCount = 3, style = null, includeCTA = true } = options
EffFollowUpCount(opts) ==
    IF IsSome(opts.followUpCount) THEN TheValue(opts.followUpCount) ELSE DefaultFollowUpCount
EffIncludeCTA(opts) == IF IsSome(opts.includeCTA) THEN TheValue(opts.includeCTA) ELSE TRUE

\* A loop that hands every follow-up the first follow-up as its previous tweet.
PreviousTweetStale(idx, fus) == IF idx > 0 THEN Some(fus[1]) ELSE None

\* previousTweet: i > 0 ? followUpTweets[i - 1] : undefined
PreviousTweet(idx, fus) == IF idx > 0 THEN Some(fus[idx]) ELSE None

\* ctaTypes: [...] of generateCTATweet
CtaTypes == <<"Follow for more content", "Share the thread", "Like the thread",
              "Comment with questions", "Visit a website (hypothetical)">>

\* The context handed to generatePrompt for the post of this role.
Context(role) ==
    LET a == TheValue(genArgs) IN
    CASE role = "hook" ->
            [topic |-> a.topic, style |-> a.options.style, hookTweet |-> None,
             previousTweet |-> None, tweetNumber |-> 0, ctaTypes |-> None]
      [] role = "followup" ->
            [topic |-> a.topic,
             style |-> FollowUpStyle(a.options.style, TheValue(hookTweet).profile),
             hookTweet |-> hookTweet,
             previousTweet |-> PreviousTweet(fi, followUpTweets),
             tweetNumber |-> fi + 2, ctaTypes |-> None]
      [] OTHER ->
            [topic |-> a.topic, style |-> a.options.style, hookTweet |-> None,
             previousTweet |-> None, tweetNumber |-> 0, ctaTypes |-> Some(CtaTypes)]

\* ---------------------------------------------- generate: generateThread
\* An off-by-one loop: one follow-up too many.
OneMoreFollowUp(idx, numTweets) == idx <= numTweets

\* for (let i = 0; i < numTweets; i++)
MoreFollowUps(idx, numTweets) == idx < numTweets

\* The route: if (!data.topic) return 400
RouteRejects(req) == ~TruthyString(req.topic)

\* The arguments with which generateThread is called for this request.
GenerateArgs(req) ==
    IF req.via = "route"
    THEN [topic |-> req.topic,
          options |-> [followUpCount |-> IF TruthyNumber(req.followUpCount) THEN req.followUpCount
                                         ELSE Some(DefaultFollowUpCount),
                       style |-> req.style,
                       includeCTA |-> Some(req.includeCTA # Some(FALSE))]]
    ELSE [topic |-> req.topic,
          options |-> [followUpCount |-> req.followUpCount, style |-> req.style,
                       includeCTA |-> req.includeCTA]]

\* The tweet number of the post being generated: i + 2 for a follow-up, none otherwise.
PostNumber == IF stage = "followup" THEN fi + 2 ELSE 0

\* An error escapes generateThread; the route's catch answers 500.
Raise(err) ==
    /\ graised' = err
    /\ gpc' = "raised"
    /\ response' = IF TheValue(request).via = "route"
                   THEN Some([status |-> 500, error |-> err]) ELSE None
    /\ UNCHANGED <<hookTweet, followUpTweets, fi, generatedPrompt, stage, thread, lastText>>

\* generateThread returns the thread; the route answers 200 with it.
ReturnThread(t) ==
    /\ thread' = t
    /\ gpc' = "returned"
    /\ response' = IF TheValue(request).via = "route"
                   THEN Some([status |-> 200, error |-> None]) ELSE None
    /\ stage' = "none"

\* The follow-up loop is over: const thread = [hookTweet, ...followUpTweets], then
\* the CTA if includeCTA, else return thread.
AfterFollowUps(hook, fus) ==
    IF EffIncludeCTA(TheValue(genArgs).options)
    THEN /\ thread' = <<hook>> \o fus
         /\ stage' = "cta"
         /\ gpc' = "meta"
         /\ response' = response
    ELSE ReturnThread(<<hook>> \o fus)

\* A 'generate' request of reqs arrives at the route, or generateThread is called
\* directly with it.
GenerateFrom(reqs) ==
    /\ UNCHANGED <<pubVars, routeVars, concVars>>
    /\ gpc = "idle"
    /\ \E req \in reqs :
        /\ request' = Some(req)
        /\ IF req.via = "route" /\ RouteRejects(req)
           THEN /\ response' = Some([status |-> 400, error |-> Some("Topic is required")])
                /\ gpc' = "responded"
                /\ genArgs' = None
                /\ stage' = "none"
           ELSE /\ response' = None
                /\ gpc' = "meta"
                /\ genArgs' = Some(GenerateArgs(req))
                /\ stage' = "hook"
    /\ hookTweet' = None
    /\ followUpTweets' = <<>>
    /\ fi' = 0
    /\ generatedPrompt' = None
    /\ thread' = <<>>
    /\ llmCalls' = 0
    /\ lastPrompt' = None
    /\ lastText' = None
    /\ lastOutcome' = "none"
    /\ graised' = None

\* Any request, by either way.
Generate == GenerateFrom(Requests)

\* generatePrompt(promptType, context): the meta-prompt goes to the backend and
\* what comes back is the prompt of the post.
GeneratePrompt ==
    /\ UNCHANGED <<pubVars, routeVars, concVars>>
    /\ gpc = "meta"
    /\ LET prompt == MetaPrompt(stage, Context(stage)) IN
       \E o \in BackendOutcomes :
        LET r == CallLLM(prompt, <<stage, PostNumber, "meta">>, o, PlainProfile) IN
        /\ llmCalls' = llmCalls + 1
        /\ lastOutcome' = o
        /\ lastPrompt' = Some(prompt)
        /\ IF r.kind = "throw"
           THEN Raise(r.error)
           ELSE /\ generatedPrompt' = Some(GeneratedPromptOf(prompt, r.value))
                /\ lastText' = Some(r.value)
                /\ gpc' = "post"
                /\ UNCHANGED <<hookTweet, followUpTweets, fi, stage, thread, response, graised>>
    /\ UNCHANGED <<request, genArgs>>

\* generateHookTweet: callLLM(generatedPrompt) gives the hook; generateFollowUpTweets
\* analyzes it and enters its loop.
HookTweet ==
    /\ UNCHANGED <<pubVars, routeVars, concVars>>
    /\ gpc = "post"
    /\ stage = "hook"
    /\ LET prompt == TheValue(generatedPrompt) IN
       \E o \in BackendOutcomes : \E pr \in PossibleProfiles(prompt, o, stage, "post") :
        LET r == CallLLM(prompt, <<stage, PostNumber, "post">>, o, pr) IN
        /\ llmCalls' = llmCalls + 1
        /\ lastOutcome' = o
        /\ lastPrompt' = Some(prompt)
        /\ IF r.kind = "throw"
           THEN Raise(r.error)
           ELSE /\ lastText' = Some(r.value)
                /\ hookTweet' = Some(r.value)
                /\ followUpTweets' = <<>>
                /\ fi' = 0
                /\ graised' = graised
                /\ generatedPrompt' = generatedPrompt
                /\ IF MoreFollowUps(0, EffFollowUpCount(TheValue(genArgs).options))
                   THEN /\ stage' = "followup"
                        /\ gpc' = "meta"
                        /\ UNCHANGED <<thread, response>>
                   ELSE AfterFollowUps(r.value, <<>>)
    /\ UNCHANGED <<request, genArgs>>

\* One turn of the loop of generateFollowUpTweets: callLLM(generatedPrompt) gives
\* the follow-up, which is pushed; i++.
FollowUpTweet ==
    /\ UNCHANGED <<pubVars, routeVars, concVars>>
    /\ gpc = "post"
    /\ stage = "followup"
    /\ LET prompt == TheValue(generatedPrompt) IN
       \E o \in BackendOutcomes : \E pr \in PossibleProfiles(prompt, o, stage, "post") :
        LET r == CallLLM(prompt, <<stage, PostNumber, "post">>, o, pr) IN
        /\ llmCalls' = llmCalls + 1
        /\ lastOutcome' = o
        /\ lastPrompt' = Some(prompt)
        /\ IF r.kind = "throw"
           THEN Raise(r.error)
           ELSE /\ lastText' = Some(r.value)
                /\ followUpTweets' = Append(followUpTweets, r.value)
                /\ fi' = fi + 1
                /\ graised' = graised
                /\ UNCHANGED <<hookTweet, generatedPrompt>>
                /\ IF MoreFollowUps(fi + 1, EffFollowUpCount(TheValue(genArgs).options))
                   THEN /\ gpc' = "meta"
                        /\ UNCHANGED <<stage, thread, response>>
                   ELSE AfterFollowUps(TheValue(hookTweet), followUpTweets')
    /\ UNCHANGED <<request, genArgs>>

\* generateCTATweet: callLLM(generatedPrompt) gives the CTA, which is pushed on
\* the thread; generateThread returns.
CTATweet ==
    /\ UNCHANGED <<pubVars, routeVars, concVars>>
    /\ gpc = "post"
    /\ stage = "cta"
    /\ LET prompt == TheValue(generatedPrompt) IN
       \E o \in BackendOutcomes : \E pr \in PossibleProfiles(prompt, o, stage, "post") :
        LET r == CallLLM(prompt, <<stage, PostNumber, "post">>, o, pr) IN
        /\ llmCalls' = llmCalls + 1
        /\ lastOutcome' = o
        /\ lastPrompt' = Some(prompt)
        /\ IF r.kind = "throw"
           THEN Raise(r.error)
           ELSE /\ lastText' = Some(r.value)
                /\ graised' = graised
                /\ UNCHANGED <<hookTweet, followUpTweets, fi, generatedPrompt>>
                /\ ReturnThread(Append(thread, r.value))
    /\ UNCHANGED <<request, genArgs>>

\* The caller has the thread, the response or the error in hand.
GenerateDone ==
    /\ UNCHANGED <<pubVars, routeVars, concVars>>
    /\ gpc \in {"returned", "responded", "raised"}
    /\ gpc' = "idle"
    /\ request' = None
    /\ genArgs' = None
    /\ hookTweet' = None
    /\ followUpTweets' = <<>>
    /\ fi' = 0
    /\ generatedPrompt' = None
    /\ stage' = "none"
    /\ thread' = <<>>
    /\ response' = None
    /\ llmCalls' = 0
    /\ lastPrompt' = None
    /\ lastText' = None
    /\ lastOutcome' = "none"
    /\ graised' = None

GenerateNext ==
    \/ Generate
    \/ GeneratePrompt
    \/ HookTweet
    \/ FollowUpTweet
    \/ CTATweet
    \/ GenerateDone

GenerateSpec == Init /\ [][GenerateNext]_vars

\* ------------------------------------- pipeline: generate, then publish
\* The thread the page asks for: a hook and one follow-up.
PipelineRequests ==
    {[via |-> "route", topic |-> Some("ai tools"), followUpCount |-> Some(1),
      style |-> None, includeCTA |-> Some(FALSE)]}

\* ThreadGenerator asks for a thread.
PipelineGenerate == GenerateFrom(PipelineRequests)

\* The page hands the generated thread to TwitterPoster, which sends it as the
\* tweets of a 'post' request: postThread is called with it on a new session.
PipelinePost ==
    /\ UNCHANGED <<genVars, routeVars, concVars>>
    /\ gpc = "returned"
    /\ PostThreadWith(thread, NoOptions, FALSE)

PipelineNext ==
    \/ PipelineGenerate
    \/ GeneratePrompt
    \/ HookTweet
    \/ FollowUpTweet
    \/ PipelinePost
    \/ PostTweet
    \/ InitializeOk
    \/ InitializeFails
    \/ AttemptOk
    \/ AttemptFails
    \/ RetryWait
    \/ InterTweetWait

PipelineSpec == Init /\ [][PipelineNext]_vars

\* ------------------------------------------------------- generate: claims
\* The three kinds of text callLLM returns.
TextKinds == {"generated", "failedPlaceholder", "errorPlaceholder"}
\* The thread generateThread returns for its arguments when nothing goes wrong
\* is as long as this.
FullLength(opts) ==
    1 + (IF EffFollowUpCount(opts) > 0 THEN EffFollowUpCount(opts) ELSE 0)
      + (IF EffIncludeCTA(opts) THEN 1 ELSE 0)

\* C1: for a non-empty topic, a followUpCount n >= 1 and an includeCTA value,
\* generateThread returns 1 + n + (1 if includeCTA) posts: the hook, then the
\* follow-ups in the order they were generated, then the CTA if requested.
C1_ThreadShape ==
    (/\ gpc = "returned"
     /\ TruthyString(TheValue(genArgs).topic) /\ ~Blank(TheValue(genArgs).topic)
     /\ IsSome(TheValue(genArgs).options.followUpCount)
     /\ TheValue(TheValue(genArgs).options.followUpCount) >= 1
     /\ IsSome(TheValue(genArgs).options.includeCTA)) =>
        LET n == TheValue(TheValue(genArgs).options.followUpCount)
            cta == TheValue(TheValue(genArgs).options.includeCTA) IN
        /\ Len(thread) = 1 + n + (IF cta THEN 1 ELSE 0)
        /\ thread[1] = TheValue(hookTweet)
        /\ thread[1].src = <<"hook", 0, "post">>
        /\ Len(followUpTweets) = n
        /\ \A j \in 1..n : /\ thread[1 + j] = followUpTweets[j]
                           /\ thread[1 + j].src = <<"followup", j + 1, "post">>
        /\ cta => thread[Len(thread)].src = <<"cta", 0, "post">>

\* A thread of four posts: the hook, two follow-ups and the CTA.
C1_Witness ==
    /\ gpc = "returned"
    /\ TheValue(genArgs).topic = Some("ai tools")
    /\ TheValue(genArgs).options.followUpCount = Some(2)
    /\ TheValue(genArgs).options.includeCTA = Some(TRUE)
    /\ Len(thread) = 4
    /\ thread[4].src = <<"cta", 0, "post">>

\* C8: whatever the backend does, no error escapes generateThread: a call whose
\* backend throws or returns nothing yields a placeholder text, the composition
\* goes on, and the thread returned has its full length, two backend calls a post.
C8_GenerationDegrades ==
    /\ graised = None
    /\ gpc # "raised"
    /\ lastOutcome = "throws" =>
            IsSome(lastText) /\ TheValue(lastText).kind = "errorPlaceholder"
    /\ lastOutcome = "empty" =>
            IsSome(lastText) /\ TheValue(lastText).kind = "failedPlaceholder"
    /\ gpc = "returned" =>
            /\ Len(thread) = FullLength(TheValue(genArgs).options)
            /\ \A j \in 1..Len(thread) : thread[j].kind \in TextKinds
            /\ llmCalls = 2 * Len(thread)

\* A full thread of five posts whose hook is the placeholder of a backend error
\* and whose last post was generated.
C8_Witness ==
    /\ gpc = "returned"
    /\ graised = None
    /\ Len(thread) = 5
    /\ thread[1].kind = "errorPlaceholder"
    /\ thread[3].kind = "failedPlaceholder"
    /\ thread[5].kind = "generated"

\* C9 (as claimed): when the topic is absent, empty or blank, no backend call is
\* made and no thread is returned.
C9_BadTopicRejected ==
    (IsSome(request) /\ (TheValue(request).topic = None \/ Blank(TheValue(request).topic))) =>
        /\ llmCalls = 0
        /\ gpc # "returned"

\* C10 (as claimed): a followUpCount below 1 yields exactly one follow-up post.
C10_ClampedToOne ==
    (/\ gpc = "returned"
     /\ IsSome(TheValue(request).followUpCount)
     /\ TheValue(TheValue(request).followUpCount) < 1) =>
        /\ graised = None
        /\ Len(followUpTweets) = 1

\* C11: when followUpCount is absent from the options, three follow-up posts are
\* generated.
C11_DefaultFollowUpCount ==
    (gpc = "returned" /\ TheValue(request).followUpCount = None) =>
        /\ Len(followUpTweets) = 3
        /\ Len(thread) = 4 + (IF EffIncludeCTA(TheValue(genArgs).options) THEN 1 ELSE 0)
        /\ \A j \in 1..3 : thread[1 + j].src = <<"followup", j + 1, "post">>

\* generateThread called directly without followUpCount and without a CTA has
\* returned the hook and three follow-ups.
C11_Witness ==
    /\ gpc = "returned"
    /\ TheValue(request).via = "direct"
    /\ TheValue(request).followUpCount = None
    /\ TheValue(request).includeCTA = Some(FALSE)
    /\ Len(thread) = 4
    /\ Len(followUpTweets) = 3

\* The meta-prompt of a follow-up has just been sent to the backend.
FollowUpPromptSent ==
    gpc = "post" /\ stage = "followup" /\ IsSome(lastPrompt) /\ TheValue(lastPrompt).kind = "meta"

\* C12 (as claimed): in the style of every follow-up's context, each field the
\* caller set in options.style has the caller's value, whatever the hook shows.
C12_ExplicitStyleWins ==
    (FollowUpPromptSent /\ IsSome(TheValue(genArgs).options.style)) =>
        LET given == TheValue(TheValue(genArgs).options.style)
            used == TheValue(TheValue(lastPrompt).style) IN
        /\ IsSome(given.contentType) => used.contentType = given.contentType
        /\ IsSome(given.emojiUsage) => used.emojiUsage = given.emojiUsage
        /\ IsSome(given.formatting) => used.formatting = given.formatting

\* The caller stated no emoji preference.
NoEmojiPreference ==
    \/ TheValue(genArgs).options.style = None
    \/ TheValue(TheValue(genArgs).options.style).emojiUsage = None

\* C13: when the hook has emojis and the caller stated no emoji preference, the
\* context of every follow-up (tweet numbers 2, 3, ...) carries 'Include emojis'.
C13_EmojiInheritance ==
    (/\ gpc = "post"
     /\ stage = "followup"
     /\ TheValue(hookTweet).profile.emoji
     /\ NoEmojiPreference) =>
        /\ FollowUpPromptSent
        /\ TheValue(lastPrompt).promptType = "followup"
        /\ TheValue(lastPrompt).tweetNumber = Some(fi + 2)
        /\ IsSome(TheValue(lastPrompt).style)
        /\ TheValue(TheValue(lastPrompt).style).emojiUsage = Some("Include emojis")

\* The prompt of the third follow-up of a hook with emojis, no style given.
C13_Witness ==
    /\ FollowUpPromptSent
    /\ fi = 2
    /\ TheValue(hookTweet).profile.emoji
    /\ TheValue(genArgs).options.style = None
    /\ TheValue(TheValue(lastPrompt).style).emojiUsage = Some("Include emojis")

\* ------------------------------------------------ claims on the session
\* The direct calls of close() that found the session logged in.
ReleasingCloses == {k \in 1..Len(sessionOps) :
                        sessionOps[k].op = "close" /\ sessionOps[k].before}

\* C14: a call of initialize() made while the session is already logged in is a
\* no-op: the login is not run again (no login delay is taken) and isLoggedIn is
\* left as it was.
C14_InitializeIdempotent ==
    \A k \in 1..Len(sessionOps) :
        (sessionOps[k].op = "initialize" /\ sessionOps[k].before) =>
            /\ sessionOps[k].ms = 0
            /\ sessionOps[k].after = sessionOps[k].before

\* C15: every close() leaves the session logged out and raises nothing; a close()
\* of a session that is not logged in (closed before, or never initialized) does
\* no release: no delay, no state change, and it is not counted as a release.
C15_CloseIdempotent ==
    /\ \A k \in 1..Len(sessionOps) :
        sessionOps[k].op = "close" =>
            /\ ~sessionOps[k].after
            /\ sessionOps[k].ok
            /\ ~sessionOps[k].before =>
                    sessionOps[k].ms = 0 /\ sessionOps[k].after = sessionOps[k].before
    /\ (Len(sessionOps) > 0 /\ sessionOps[Len(sessionOps)].op = "close") => ~isLoggedIn
    /\ closeCalls = Cardinality(ReleasingCloses)

\* initialize(), close(), close(): the second close found the session logged out.
C15_Witness ==
    /\ Len(sessionOps) = 3
    /\ sessionOps[1].op = "initialize" /\ sessionOps[1].after
    /\ sessionOps[2].op = "close" /\ sessionOps[2].before
    /\ sessionOps[3].op = "close" /\ ~sessionOps[3].before
    /\ closeCalls = 1
    /\ ~isLoggedIn

\* The login delays taken since postThread was called.
LoginDelays == SelectSeq(delays, LAMBDA d : d.kind = "login")

\* C16: on a session that is not logged in, postTweet calls initialize() before
\* any publish attempt; when that initialize() fails, postTweet returns a failed
\* result with the error 'Failed to initialize Twitter session', no publish
\* attempt is made, nothing is thrown, and postThread returns that one failed
\* entry, for the first post.
C16_InitFailure ==
    /\ pc = "attempt" => isLoggedIn
    /\ (attempts # <<>> /\ ~loggedInAtCall) =>
            /\ initCalls = 1
            /\ Len(LoginDelays) = 1
            /\ LoginDelays[1].post = 0
    /\ \A j \in 1..Len(results) :
        results[j].error = Some(InitError) =>
            /\ j = 1
            /\ results = <<FailureResult(InitError)>>
            /\ ~results[j].success
            /\ attempts = <<>>
            /\ warnings = <<>>
            /\ Len(calls) = 1
            /\ initCalls = 1
            /\ ~loggedInAtCall
            /\ pc = "returned"
            /\ thrown = None

\* postThread of two posts or more has returned the single failed entry of a
\* failed initialize().
C16_Witness ==
    /\ pc = "returned"
    /\ Len(tweets) >= 2
    /\ results = <<FailureResult(InitError)>>
    /\ attempts = <<>>
    /\ initCalls = 1
    /\ ~isLoggedIn

\* C17: the caller's scheduledTime is on the postTweet call of the first post and
\* on no other: the call of every post at index 1 or more carries no scheduledTime.
C17_ScheduleOnlyFirst ==
    \A j \in 1..Len(calls) :
        calls[j].scheduledTime = (IF j = 1 THEN options.scheduledTime ELSE None)

\* A scheduled thread whose second post has been handed to postTweet.
C17_Witness ==
    /\ Len(calls) >= 2
    /\ options.scheduledTime = Some("T1")
    /\ calls[1].scheduledTime = Some("T1")
    /\ calls[2].scheduledTime = None

\* C18: the postTweet call of post i (0-based) carries the media list stored under
\* i in options.mediaFiles, and no media when the map is absent or has no entry
\* for i.
C18_MediaByIndex ==
    \A j \in 1..Len(calls) :
        calls[j].mediaFiles =
            (IF options.mediaFiles = None
             THEN None
             ELSE TheValue(options.mediaFiles)[j - 1])

\* Three posts were handed to postTweet with a map that has media for the first
\* two only, a different list for each.
C18_Witness ==
    /\ Len(calls) = 3
    /\ IsSome(options.mediaFiles)
    /\ calls[1].mediaFiles = Some(MediaList)
    /\ calls[2].mediaFiles = Some(OtherMediaList)
    /\ calls[3].mediaFiles = None

\* The delays taken between two posts since postThread was called.
InterDelays == SelectSeq(delays, LAMBDA d : d.kind = "inter")

\* C19: one delay of 1000 ms is taken after each successful post that is not the
\* last of the list, before the next post is handed to postTweet; no delay
\* follows the last post and none follows a failed post.
C19_InterPostDelay ==
    /\ \A k \in 1..Len(InterDelays) :
        /\ InterDelays[k].post = k - 1
        /\ InterDelays[k].ms = 1000
        /\ results[k].success
        /\ k < Len(tweets)
    /\ Len(calls) <= Len(InterDelays) + 1
    /\ pc = "interDelay" =>
            /\ results[Len(results)].success
            /\ Len(results) < Len(tweets)
            /\ Len(InterDelays) = Len(results) - 1
    /\ pc \in {"loop", "init", "attempt", "retryDelay"} =>
            Len(InterDelays) = Len(results)
    /\ (pc = "returned" /\ results # <<>>) =>
            /\ Len(InterDelays) = Len(results) - 1
            /\ results[Len(results)].success => Len(results) = Len(tweets)

\* A thread of three was published in full: two delays, none after the last post.
C19_Witness ==
    /\ pc = "returned"
    /\ Len(tweets) = 3
    /\ Len(results) = 3
    /\ results[3].success
    /\ Len(InterDelays) = 2
    /\ delays[Len(delays)].kind = "inter"
    /\ delays[Len(delays)].post = 1

\* C20: in the 'post' action close() is called once postThread has returned, be
\* the list full or cut short, or has thrown, and not before; the response is
\* sent after it, so the session of every answered request is logged out.
C20_RouteCloses ==
    /\ rpc = "posting" => sessionOps = <<>>
    /\ (rpc = "closed" \/ (rpc = "responded" /\ TheValue(postResponse).status # 400)) =>
            /\ pc \in {"returned", "thrown"}
            /\ ~isLoggedIn
            /\ Len(sessionOps) = 1
            /\ sessionOps[1].op = "close"
            /\ sessionOps[1].before = (attempts # <<>>)
            /\ closeCalls = (IF attempts # <<>> THEN 1 ELSE 0)
    /\ (rpc = "responded" /\ TheValue(postResponse).status = 200) =>
            TheValue(postResponse).results = Some(results)
    /\ (rpc = "responded" /\ TheValue(postResponse).status = 400) =>
            ~isLoggedIn /\ sessionOps = <<>> /\ calls = <<>>

\* The route has answered with a list cut short by a failed second post, and the
\* session that published the first post is closed.
C20_Witness ==
    /\ rpc = "responded"
    /\ TheValue(postResponse).status = 200
    /\ Len(tweets) = 3
    /\ Len(results) = 2
    /\ results[1].success
    /\ ~results[2].success
    /\ closeCalls = 1
    /\ ~isLoggedIn

\* ------------------------------------------ claims on the 'post' request
\* The request has no post to publish.
NoPosts(req) == req.tweets = None \/ TheValue(req.tweets) = <<>>
\* The request's credentials lack a username or a password.
IncompleteCredentials(req) ==
    \/ req.credentials = None
    \/ TheValue(req.credentials).username = ""
    \/ TheValue(req.credentials).password = ""

\* C21: a 'post' request without posts (absent or empty), or whose credentials
\* lack a username or a password, is answered 400 with the matching message, and
\* for it no session is made, postThread is not called and no publish attempt is
\* made; every other request is handed to postThread.
C21_InvalidPostRejected ==
    IsSome(postRequest) =>
        LET req == TheValue(postRequest) IN
        IF NoPosts(req) \/ IncompleteCredentials(req)
        THEN /\ rpc = "responded"
             /\ TheValue(postResponse).status = 400
             /\ TheValue(postResponse).results = None
             /\ TheValue(postResponse).error =
                    (IF NoPosts(req) THEN Some("Tweets array is required")
                     ELSE Some("Twitter credentials are required"))
             /\ pc = "idle"
             /\ ~isLoggedIn
             /\ initCalls = 0
             /\ calls = <<>>
             /\ attempts = <<>>
             /\ sessionOps = <<>>
        ELSE /\ pc # "idle"
             /\ tweets = TheValue(req.tweets)
             /\ rpc = "responded" => TheValue(postResponse).status # 400

\* A request with posts and a username but an empty password was answered 400.
C21_Witness ==
    /\ rpc = "responded"
    /\ IsSome(postRequest)
    /\ ~NoPosts(TheValue(postRequest))
    /\ IsSome(TheValue(postRequest).credentials)
    /\ TheValue(TheValue(postRequest).credentials).username = "user"
    /\ TheValue(TheValue(postRequest).credentials).password = ""
    /\ TheValue(postResponse).status = 400
    /\ attempts = <<>>

\* ------------------------------------------- claims on the generation
\* C22: whenever the backend fails a call, by returning no content or by throwing,
\* callLLM returns a placeholder that embeds the truncated echo of the prompt it
\* was given.
C22_PlaceholderEchoesPrompt ==
    (lastOutcome \in {"empty", "throws"} /\ IsSome(lastText)) =>
        /\ TheValue(lastText).kind \in {"failedPlaceholder", "errorPlaceholder"}
        /\ TheValue(lastText).echo =
                Some([kind |-> TheValue(lastPrompt).kind, src |-> TheValue(lastPrompt).src])

\* The meta-prompt of the CTA has been sent and its answer is the prompt in hand.
CTAPromptSent ==
    /\ gpc = "post"
    /\ stage = "cta"
    /\ IsSome(lastPrompt)
    /\ TheValue(lastPrompt).kind = "meta"

\* C23: the CTA is generated with the merged style of the follow-ups: a style is
\* always given, the contentType the caller set is kept, and every field the
\* caller left unset carries the cue inferred from the hook.
C23_CTAUsesEffectiveStyle ==
    CTAPromptSent =>
        LET style == TheValue(genArgs).options.style
            given == IF IsSome(style) THEN TheValue(style)
                     ELSE [contentType |-> None, emojiUsage |-> None, formatting |-> None]
            hook == TheValue(hookTweet).profile
            used == TheValue(lastPrompt).style
        IN  /\ TheValue(lastPrompt).promptType = "cta"
            /\ IsSome(used)
            /\ TheValue(used).contentType =
                    (IF IsSome(given.contentType) THEN given.contentType
                     ELSE Some(hook.contentType))
            /\ given.emojiUsage = None =>
                    TheValue(used).emojiUsage =
                        Some(IF hook.emoji THEN "Include emojis" ELSE "Minimal emojis")
            /\ given.formatting = None =>
                    TheValue(used).formatting =
                        Some(IF hook.bullets THEN "Use bullet points" ELSE "No bullet points")

\* C24: the meta-prompt carries every field present in the context it was built
\* from and has no line for an absent one: topic, style, hook tweet, previous
\* tweet, tweet number and, for the CTA, the list of call-to-action intents.
C24_PromptCarriesContext ==
    (gpc = "post" /\ IsSome(lastPrompt) /\ TheValue(lastPrompt).kind = "meta") =>
        LET context == Context(stage)
            prompt == TheValue(lastPrompt)
        IN  /\ prompt.promptType = stage
            /\ prompt.topic = context.topic
            /\ prompt.style = context.style
            /\ prompt.hookTweet = context.hookTweet
            /\ prompt.previousTweet = context.previousTweet
            /\ prompt.tweetNumber =
                    (IF context.tweetNumber # 0 THEN Some(context.tweetNumber) ELSE None)
            /\ stage = "cta" => prompt.ctaTypes = Some(CtaTypes)
            /\ stage # "cta" => prompt.ctaTypes = None

\* C25: follow-ups are generated one after another, each with the text of the post
\* just before it in its context: the first follow-up (tweet 2) has the hook's
\* text, and the follow-up at tweet k >= 3 has the text of follow-up k - 1, which
\* exists before the generation of tweet k starts.
C25_SequentialFollowUps ==
    /\ stage = "followup" =>
            /\ IsSome(hookTweet)
            /\ TheValue(hookTweet).src = <<"hook", 0, "post">>
            /\ Len(followUpTweets) = fi
            /\ \A j \in 1..Len(followUpTweets) :
                    followUpTweets[j].src = <<"followup", j + 1, "post">>
    /\ FollowUpPromptSent =>
            LET prompt == TheValue(lastPrompt) IN
            /\ prompt.tweetNumber = Some(fi + 2)
            /\ prompt.hookTweet = hookTweet
            /\ IF fi = 0
               THEN prompt.previousTweet = None
               ELSE /\ prompt.previousTweet = Some(followUpTweets[fi])
                    /\ TheValue(prompt.previousTweet).src = <<"followup", fi + 1, "post">>

\* The meta-prompt of tweet 4 has been sent with the text of tweet 3 in it.
C25_Witness ==
    /\ FollowUpPromptSent
    /\ fi = 2
    /\ TheValue(lastPrompt).tweetNumber = Some(4)
    /\ TheValue(TheValue(lastPrompt).previousTweet).src = <<"followup", 3, "post">>

\* ------------------------------------ claims on interleaved invocations
\* The result postTweet returns for a post when nothing else runs: the failed
\* login's, the id of the publish that succeeded within the attempts, or the
\* error of the last attempt.
PlannedResult(p) ==
    IF p.init = "fail" THEN FailureResult(InitError)
    ELSE IF p.fails < RetryCount THEN SuccessResult(TheValue(p.id))
    ELSE FailureResult(PublishError(RetryCount))

\* C26: two postThread invocations that run interleaved, each on its own session,
\* do not interfere: every call of an invocation carries its own texts and
\* replies to the id returned for its own previous post, and the list it returns
\* is the one the outcomes it met give when it runs alone - a result a post,
\* cut after the first failure.
C26_NoInterference ==
    \A k \in Invocations :
        LET r == inv[k] IN
        /\ \A j \in 1..Len(r.calls) :
            /\ r.calls[j].text = ConcText(k)
            /\ r.calls[j].replyToTweetId =
                    (IF j = 1 THEN None ELSE r.results[j - 1].tweetId)
            /\ j > 1 => r.results[j - 1].tweetId = r.plan[j - 1].id
            /\ j > 1 => IsSome(r.plan[j - 1].id)
        /\ r.isLoggedIn = (\E j \in 1..Len(r.plan) : r.plan[j].init = "ok")
        /\ r.pc = "returned" =>
            /\ Len(r.results) = Len(r.plan)
            /\ \A j \in 1..Len(r.results) : r.results[j] = PlannedResult(r.plan[j])
            /\ \A j \in 1..(Len(r.results) - 1) : r.results[j].success
            /\ r.results[Len(r.results)].success => Len(r.results) = Len(r.tweets)

\* Both invocations have published two posts each, their publishes interleaved:
\* the ids of one lie on either side of the other's first id.
C26_Witness ==
    /\ \A k \in Invocations :
        /\ inv[k].pc = "returned"
        /\ Len(inv[k].results) = 2
        /\ inv[k].results[2].success
    /\ TheValue(inv[1].results[1].tweetId) < TheValue(inv[2].results[1].tweetId)
    /\ TheValue(inv[2].results[1].tweetId) < TheValue(inv[1].results[2].tweetId)
    /\ inv[2].calls[2].replyToTweetId = inv[2].results[1].tweetId

\* ------------------------------------------- claims on retries and frames
\* The retry delays taken for post p (0-based), in order.
RetryDelaysOf(p) == SelectSeq(delays, LAMBDA d : d.kind = "retry" /\ d.post = p)

\* C27: withRetry takes one delay of 2000 ms, the same for every retry, between
\* two consecutive attempts: none before the first attempt, none after the last
\* failed attempt, so a post that used up its 3 attempts took exactly 2 delays.
C27_RetryDelayPlacement ==
    \A p \in 0..(Len(calls) - 1) :
        LET a == Len(AttemptsOf(p))
            d == Len(RetryDelaysOf(p))
            current == p = Len(calls) - 1 /\ pc \in {"init", "attempt", "retryDelay"}
        IN  /\ \A k \in 1..d : RetryDelaysOf(p)[k].ms = 2000
            /\ IF current /\ pc = "attempt"
               THEN d = a
               ELSE d = (IF a = 0 THEN 0 ELSE a - 1)
            /\ (~current /\ Len(results) > p /\ ~results[p + 1].success
                  /\ results[p + 1].error # Some(InitError)) =>
                    /\ a = 3
                    /\ d = 2

\* The second post failed after three attempts and two retry delays.
C27_Witness ==
    /\ pc = "returned"
    /\ Len(results) = 2
    /\ ~results[2].success
    /\ Len(AttemptsOf(1)) = 3
    /\ Len(RetryDelaysOf(1)) = 2
    /\ RetryDelaysOf(1)[2].ms = 2000
    /\ delays[Len(delays)].kind = "retry"

\* The posts generated so far in this generateThread.
PostsDone == (IF IsSome(hookTweet) THEN 1 ELSE 0) + Len(followUpTweets)

\* C28: every post is made by two consecutive backend calls: the first is given
\* the meta-prompt composed for the post, the second exactly the text the first
\* returned; posts are made in thread order, so a thread of n posts has made
\* exactly 2n backend calls when it is returned.
C28_TwoStageChaining ==
    /\ gpc = "meta" => llmCalls = 2 * PostsDone
    /\ gpc = "post" =>
            /\ llmCalls = 2 * PostsDone + 1
            /\ TheValue(lastPrompt).kind = "meta"
            /\ TheValue(lastPrompt).src = <<stage, PostNumber, "meta">>
            /\ TheValue(lastText).src = <<stage, PostNumber, "meta">>
            /\ generatedPrompt = lastText
    /\ (gpc \in {"meta", "returned"} /\ llmCalls > 0) =>
            /\ lastPrompt = generatedPrompt
            /\ TheValue(lastPrompt).kind # "meta"
            /\ TheValue(lastPrompt).src[3] = "meta"
            /\ TheValue(lastText).src =
                    <<TheValue(lastPrompt).src[1], TheValue(lastPrompt).src[2], "post">>
    /\ gpc = "returned" =>
            /\ llmCalls = 2 * Len(thread)
            /\ lastText = Some(thread[Len(thread)])
            /\ thread[1].src = <<"hook", 0, "post">>
            /\ \A j \in 2..Len(thread) :
                    thread[j].src \in {<<"followup", j, "post">>, <<"cta", 0, "post">>}
            /\ \A j \in 2..(Len(thread) - 1) : thread[j].src = <<"followup", j, "post">>

\* A thread of hook, one follow-up and CTA is returned after six backend calls,
\* the last of them given the prompt generated for the CTA.
C28_Witness ==
    /\ gpc = "returned"
    /\ Len(thread) = 3
    /\ llmCalls = 6
    /\ TheValue(lastPrompt).src = <<"cta", 0, "meta">>
    /\ thread[3].src = <<"cta", 0, "post">>

\* C29: postThread never closes the session: from its call to its return close()
\* is not called and a logged-in session stays logged in; when it returns after
\* a publish attempt, made on a session whose login succeeded, the session is
\* still logged in, also when a failed post cut the thread short.
C29_PostThreadKeepsSession ==
    pc # "idle" =>
        /\ closeCalls = 0
        /\ sessionOps = <<>>
        /\ loggedInAtCall => isLoggedIn
        /\ attempts # <<>> => isLoggedIn
        /\ Len(LoginDelays) > 0 => isLoggedIn

\* postThread logged the session in, published the first post, failed on the
\* second and returned: the session is still logged in.
C29_Witness ==
    /\ pc = "returned"
    /\ ~loggedInAtCall
    /\ Len(tweets) = 3
    /\ Len(results) = 2
    /\ results[1].success
    /\ ~results[2].success
    /\ Len(AttemptsOf(1)) = 3
    /\ isLoggedIn
    /\ closeCalls = 0

\* ------------------------------------------------ claims on the pipeline
\* The post generated last.
LatestPost ==
    IF gpc = "returned" THEN thread[Len(thread)]
    ELSE IF followUpTweets # <<>> THEN followUpTweets[Len(followUpTweets)]
    ELSE TheValue(hookTweet)

\* C30: no step enforces the 280-character limit: each post of the thread is the
\* text callLLM returned for its generation call, as it is, over the limit or
\* not; the thread returned is those posts in order; and postThread hands each
\* text to postTweet unchanged, whatever its length.
C30_NoLengthEnforcement ==
    /\ (gpc \in {"meta", "returned"} /\ llmCalls > 0) => LatestPost = TheValue(lastText)
    /\ gpc = "returned" =>
            /\ thread[1] = TheValue(hookTweet)
            /\ Len(thread) = 1 + Len(followUpTweets)
            /\ \A j \in 1..Len(followUpTweets) : thread[1 + j] = followUpTweets[j]
    /\ pc # "idle" =>
            /\ tweets = thread
            /\ \A j \in 1..Len(calls) : calls[j].text = thread[j]
            /\ IsSome(tweetOptions) => TheValue(tweetOptions).text = thread[Len(calls)]

\* A hook over 280 characters was returned in the thread, handed to postTweet
\* as it was and published, and so was the follow-up.
C30_Witness ==
    /\ gpc = "returned"
    /\ pc = "returned"
    /\ Len(thread) = 2
    /\ thread[1].kind = "generated"
    /\ thread[1].profile.long
    /\ calls[1].text.profile.long
    /\ Len(results) = 2
    /\ results[1].success
    /\ results[2].success

\* ------------------------------------- claims on the shape of postThread
\* C31: at every point of postThread and at its return, results[j] is the result
\* of tweets[j] (of the call made with its text, a success exactly when the last
\* attempt for it succeeded); every entry but the last is a success with an id;
\* and the list returned is shorter than the input only if its last entry is a
\* failure.
C31_ResultListShape ==
    pc # "idle" =>
        /\ Len(results) <= Len(calls)
        /\ Len(calls) <= Len(results) + 1
        /\ Len(calls) <= Len(tweets)
        /\ \A j \in 1..Len(results) :
            /\ calls[j].text = tweets[j]
            /\ results[j].success =
                    (AttemptsOf(j - 1) # <<>> /\ AttemptsOf(j - 1)[Len(AttemptsOf(j - 1))].ok)
            /\ results[j].success => IsSome(results[j].tweetId)
            /\ j < Len(results) => results[j].success
            /\ (j > 1 /\ results[j].success) =>
                    TheValue(results[j - 1].tweetId) < TheValue(results[j].tweetId)
        /\ (pc = "returned" /\ Len(results) < Len(tweets)) =>
                /\ Len(results) > 0
                /\ ~results[Len(results)].success

\* Two different posts are published and the third, the last of the input, has
\* failed: the list is as long as the input and ends with the failure.
C31_Witness ==
    /\ pc = "returned"
    /\ tweets = <<"a", "b", "a">>
    /\ Len(results) = 3
    /\ results[1].success
    /\ results[2].success
    /\ ~results[3].success

\* postThread is running: called and not yet returned or thrown.
PostThreadRunning == pc \notin {"idle", "returned", "thrown"}
PostThreadEnded == pc \in {"returned", "thrown"}
\* The attempts of the activation: at most RetryCount per post, numbered 1, 2, ...
\* within a post, none for a post outside the list, and in the order of the posts.
AttemptsBounded ==
    /\ Len(attempts) <= Len(tweets) * RetryCount
    /\ \A n \in 1..Len(attempts) :
        /\ attempts[n].post \in 0..(Len(tweets) - 1)
        /\ attempts[n].attempt \in 1..RetryCount
        /\ n > 1 =>
            \/ /\ attempts[n].post = attempts[n - 1].post
               /\ attempts[n].attempt = attempts[n - 1].attempt + 1
               /\ ~attempts[n - 1].ok
            \/ /\ attempts[n].post = attempts[n - 1].post + 1
               /\ attempts[n].attempt = 1
               /\ attempts[n - 1].ok
        /\ n = 1 => (attempts[n].post = 0 /\ attempts[n].attempt = 1)

\* C32: given that every publish attempt and every delay terminates, a postThread
\* that was called ends (returns or throws); at every point it has made at most
\* Len(tweets) * RetryCount publish attempts, and every attempt for post i comes
\* before the first attempt for post i + 1.
C32_Terminates ==
    /\ []AttemptsBounded
    /\ PostThreadRunning ~> PostThreadEnded
\* a three-post thread that ended after the most attempts the environment allows here:
\* two posts published at their last attempt, the third failed all of them
C32_Witness ==
    /\ pc = "returned" /\ Len(tweets) = 3
    /\ Len(attempts) = 3 * RetryCount
    /\ Len(results) = 3 /\ ~results[3].success

\* On a session that was not logged in when postThread was called: initialize() is
\* awaited only for the first post and before any attempt, at most once; once it
\* has succeeded its login delay is the first delay of the activation and the only
\* login; attempts are made on a logged-in session only.
InitializedOnce ==
    (pc # "idle" /\ ~loggedInAtCall) =>
        /\ initCalls <= 1
        /\ pc = "init" => (initCalls = 0 /\ i = 0 /\ attempts = <<>> /\ Len(calls) = 1)
        /\ isLoggedIn =>
            /\ initCalls = 1
            /\ Len(LoginDelays) = 1
            /\ delays[1] = [kind |-> "login", post |-> 0, ms |-> LoginDelay]
        /\ ~isLoggedIn => (attempts = <<>> /\ Len(calls) <= 1 /\ LoginDelays = <<>>)
\* A publish attempt has just failed.
AttemptJustFailed ==
    /\ Len(attempts') = Len(attempts) + 1
    /\ ~attempts'[Len(attempts')].ok

\* C33: during a postThread on a session that is not logged in and whose
\* initialize() succeeds, initialize() is called exactly once, before the first
\* attempt of the first post; no later post and no retry calls it again; a failed
\* publish attempt leaves isLoggedIn as it was.
C33_SingleInitialization ==
    /\ []InitializedOnce
    /\ [][AttemptJustFailed => isLoggedIn' = isLoggedIn]_vars
\* a three-post thread on a fresh session, with a retried post, has returned
C33_Witness ==
    /\ pc = "returned" /\ ~loggedInAtCall /\ isLoggedIn
    /\ Len(results) = 3 /\ results[3].success
    /\ initCalls = 1
    /\ FailedAttemptsOf(1) # <<>>
    /\ FailedAttemptsOf(2) # <<>>

\* ------------------------------------------------ claims on degraded generation
\* One of the two placeholder strings of callLLM.
Degraded(t) == t.kind \in {"failedPlaceholder", "errorPlaceholder"}
\* The last post text generated so far.
LatestText ==
    IF followUpTweets # <<>> THEN followUpTweets[Len(followUpTweets)] ELSE TheValue(hookTweet)

\* C34: when the meta-prompt call of a post gives a placeholder, generatePrompt
\* returns that placeholder and it alone is the prompt of the post's call, which is
\* made once, with no fallback to the meta-prompt; a post text, degraded or not, is
\* the hookTweet or previousTweet of the contexts of the later follow-ups.
C34_DegradationCascades ==
    /\ gpc = "post" =>
            LET meta == TheValue(lastPrompt)
                g == TheValue(generatedPrompt) IN
            /\ lastOutcome = "empty" =>
                    g = Text("failedPlaceholder", <<stage, PostNumber, "meta">>,
                             Some([kind |-> "meta", src |-> meta.src]), PlainProfile)
            /\ lastOutcome = "throws" =>
                    g = Text("errorPlaceholder", <<stage, PostNumber, "meta">>,
                             None, PlainProfile)
            /\ lastOutcome # "text" => Degraded(g)
            /\ g.kind # "meta"
            /\ llmCalls = 2 * PostsDone + 1
            /\ stage = "followup" =>
                    /\ meta.hookTweet = hookTweet
                    /\ fi = 0 => meta.previousTweet = None
                    /\ fi > 0 => meta.previousTweet = Some(followUpTweets[fi])
    /\ (gpc = "meta" /\ llmCalls > 0) =>
            LET p == TheValue(lastPrompt)
                t == TheValue(lastText) IN
            /\ p = TheValue(generatedPrompt)
            /\ llmCalls = 2 * PostsDone
            /\ t = LatestText
            /\ Degraded(p) =>
                    /\ t.src = <<p.src[1], p.src[2], "post">>
                    /\ lastOutcome = "empty" =>
                            /\ t.kind = "failedPlaceholder"
                            /\ t.echo = Some([kind |-> p.kind, src |-> p.src])
    /\ gpc = "returned" =>
            /\ thread[1] = TheValue(hookTweet)
            /\ \A j \in 1..Len(followUpTweets) : thread[j + 1] = followUpTweets[j]
\* the second follow-up is about to be generated from a placeholder, in a thread whose
\* hook is a placeholder that echoes the placeholder it was generated from, and
\* whose first follow-up is a placeholder too
C34_Witness ==
    /\ gpc = "post" /\ stage = "followup" /\ fi = 1
    /\ lastOutcome = "empty"
    /\ TheValue(generatedPrompt).kind = "failedPlaceholder"
    /\ TheValue(hookTweet).kind = "failedPlaceholder"
    /\ TheValue(hookTweet).echo =
            Some([kind |-> "errorPlaceholder", src |-> <<"hook", 0, "meta">>])
    /\ followUpTweets[1].kind = "errorPlaceholder"
    /\ TheValue(lastPrompt).hookTweet = hookTweet
    /\ TheValue(lastPrompt).previousTweet = Some(followUpTweets[1])

====
